---- MODULE Spec2Model ----
(***************************************************************************)
(* Model of the boundless-transceiver relay:                               *)
(*   crates/common       address codec, GuestInput, Journal                *)
(*   crates/host         build_input, build_proof, the relay binary        *)
(*   crates/zkvm/guest   the verification program run by the prover        *)
(*   crates/zkvm         the execution harness of the guest (run_tests)    *)
(* Bytes are integers 0..255, byte strings are sequences of them.          *)
(* Option values are sequences: <<>> is None, <<x>> is Some(x).            *)
(***************************************************************************)
EXTENDS Integers, Sequences, FiniteSets, TLC

\* ------------------------------------------------------------- bounds
\* longest log list of a receipt or of a block
MaxLogs == 2
\* highest block number
MaxBlock == 1

\* ------------------------------------------------------------- values
None == <<>>
Some(x) == <<x>>
IsSome(o) == Len(o) = 1
Unwrap(o) == o[1]

\* F applied to the value of x, which is computed once
Let(x, F(_)) == CHOOSE r \in {F(v) : v \in {x}} : TRUE

\* Sequences over S of length at most n
RECURSIVE SeqsUpTo(_, _)
SeqsUpTo(S, n) ==
  IF n = 0 THEN {<<>>}
  ELSE Let(SeqsUpTo(S, n - 1), LAMBDA shorter :
         shorter \cup {Append(s, x) : s \in {t \in shorter : Len(t) = n - 1}, x \in S})

\* two 20-byte native addresses
AddrA == [i \in 1..20 |-> 160 + i]
AddrB == [i \in 1..20 |-> 180 + i]
Addresses == {AddrA, AddrB}
\* the destination transceiver's address
AddrDst == [i \in 1..20 |-> 200 + i]

\* message payloads: empty, the expected one, another one
MsgExpected == <<83, 111, 109, 101>>
MsgOther == <<110, 111, 116>>
Messages == {<<>>, MsgExpected, MsgOther}

\* event signatures (topic 0 of a log)
SendTransceiverMessage == "SendTransceiverMessage(uint16,bytes)"
OtherEvent == "Transfer(address,address,uint256)"
Topics == <<SendTransceiverMessage, OtherEvent>>
RecipientChains == {3, 4}

\* A raw log: the emitting address, the event signature and the event's data.
\* Logs of another event carry no SendTransceiverMessage data.
SendLogs ==
  [address : Addresses, topic0 : {SendTransceiverMessage},
   recipientChain : RecipientChains, encodedMessage : Messages]
OtherLogs ==
  [address : Addresses, topic0 : {OtherEvent},
   recipientChain : {3}, encodedMessage : {<<>>}]
Logs == SendLogs \cup OtherLogs
LogLists == SeqsUpTo(Logs, MaxLogs)

\* ------------------------------------------------------------- common
\* common/src/lib.rs: from_wormhole_address, skip 12 bytes, take the last 20
from_wormhole_address_leading(wormhole_addr) ==
  [i \in 1..20 |-> wormhole_addr[i]]
from_wormhole_address(wormhole_addr) == [i \in 1..20 |-> wormhole_addr[i + 12]]

\* common/src/lib.rs: to_wormhole_address, 12 zero bytes then the address
to_wormhole_address_left(address) ==
  [i \in 1..32 |-> IF i <= 20 THEN address[i] ELSE 0]
to_wormhole_address(address) ==
  [i \in 1..32 |-> IF i <= 12 THEN 0 ELSE address[i - 12]]

\* SendTransceiverMessage::decode_log(..).ok(): Some(event) when the log is
\* of that event
decode_log(log) ==
  IF log.topic0 = SendTransceiverMessage
  THEN Some([recipientChain |-> log.recipientChain,
             encodedMessage |-> log.encodedMessage])
  ELSE None

\* ------------------------------------------------------------- encodings
\* n as w little-endian bytes (usize::to_le_bytes, bincode's fixed-width
\* integers); the modelled numbers stay below 2^31
LeBytes(n, w) == [i \in 1..w |-> IF i <= 4 THEN (n \div (256 ^ (i - 1))) % 256 ELSE 0]

\* the number held by little-endian bytes b; -1 when it exceeds the modelled range
ByteAt(b, i) == IF i <= Len(b) THEN b[i] ELSE 0

FromLeBytes(b) ==
  IF \E i \in 1..Len(b) : (i > 4 /\ b[i] # 0) \/ (i = 4 /\ b[i] >= 128)
  THEN -1
  ELSE ByteAt(b, 1) + 256 * ByteAt(b, 2) + 65536 * ByteAt(b, 3)
         + 16777216 * ByteAt(b, 4)

Drop(b, n) == SubSeq(b, n + 1, Len(b))
Take(b, n) == SubSeq(b, 1, n)

RECURSIVE Concat(_)
Concat(ss) == IF ss = <<>> THEN <<>> ELSE Head(ss) \o Concat(Tail(ss))

IndexOf(seq, x) == CHOOSE i \in 1..Len(seq) : seq[i] = x

\* bincode of a byte string: u64 length, then the bytes
SerBytes(b) == LeBytes(Len(b), 8) \o b

\* bincode of one log of the captured block
SerLog(log) ==
  log.address \o <<IndexOf(Topics, log.topic0)>> \o LeBytes(log.recipientChain, 2)
    \o SerBytes(log.encodedMessage)

\* bincode of the EthEvmInput: the execution block, the commitment block and
\* the block's logs
SerEvmInput(c) ==
  LeBytes(c.block, 8) \o LeBytes(c.commitment_block, 8) \o LeBytes(Len(c.logs), 8)
    \o Concat([i \in 1..Len(c.logs) |-> SerLog(c.logs[i])])

\* GuestInput::serialize: the fields in declaration order (commitment,
\* encoded_message, contract_addr)
serialize(input) ==
  SerEvmInput(input.commitment) \o SerBytes(input.encoded_message)
    \o SerBytes(input.contract_addr)

\* A parse result: ok, the value and the bytes left
ParseFail == [ok |-> FALSE, value |-> <<>>, rest |-> <<>>]
ParseOk(v, rest) == [ok |-> TRUE, value |-> v, rest |-> rest]

\* a w-byte little-endian integer at the head of b
ParseU(b, w) ==
  IF Len(b) < w THEN ParseFail
  ELSE Let(FromLeBytes(Take(b, w)),
           LAMBDA n : IF n < 0 THEN ParseFail ELSE ParseOk(n, Drop(b, w)))

\* a length-prefixed byte string at the head of b
ParseBytes(b) ==
  Let(ParseU(b, 8),
      LAMBDA n : IF ~n.ok \/ Len(n.rest) < n.value THEN ParseFail
                 ELSE ParseOk(Take(n.rest, n.value), Drop(n.rest, n.value)))

ParseLog(b) ==
  IF Len(b) < 23 \/ b[21] \notin 1..Len(Topics) THEN ParseFail
  ELSE Let(ParseU(Drop(b, 21), 2), LAMBDA chain :
         IF ~chain.ok THEN ParseFail
         ELSE Let(ParseBytes(chain.rest), LAMBDA msg :
                IF ~msg.ok THEN ParseFail
                ELSE ParseOk([address |-> Take(b, 20), topic0 |-> Topics[b[21]],
                              recipientChain |-> chain.value,
                              encodedMessage |-> msg.value], msg.rest)))

RECURSIVE ParseLogs(_, _)
ParseLogs(b, n) ==
  IF n = 0 THEN ParseOk(<<>>, b)
  ELSE Let(ParseLog(b), LAMBDA first :
         IF ~first.ok THEN ParseFail
         ELSE Let(ParseLogs(first.rest, n - 1), LAMBDA others :
                IF ~others.ok THEN ParseFail
                ELSE ParseOk(<<first.value>> \o others.value, others.rest)))

ParseEvmInput(b) ==
  Let(ParseU(b, 8), LAMBDA blk :
    IF ~blk.ok THEN ParseFail
    ELSE Let(ParseU(blk.rest, 8), LAMBDA cmt :
      IF ~cmt.ok THEN ParseFail
      ELSE Let(ParseU(cmt.rest, 8), LAMBDA cnt :
        IF ~cnt.ok THEN ParseFail
        ELSE Let(ParseLogs(cnt.rest, cnt.value), LAMBDA lgs :
          IF ~lgs.ok THEN ParseFail
          ELSE ParseOk([block |-> blk.value, commitment_block |-> cmt.value,
                        logs |-> lgs.value], lgs.rest)))))

\* GuestInput::deserialize: Some(input), or None for malformed bytes
\* (bytes after the last field are ignored)
deserialize(data) ==
  Let(ParseEvmInput(data), LAMBDA c :
    IF ~c.ok THEN None
    ELSE Let(ParseBytes(c.rest), LAMBDA m :
      IF ~m.ok THEN None
      ELSE Let(ParseBytes(m.rest), LAMBDA a :
        IF ~a.ok \/ Len(a.value) # 32 THEN None
        ELSE Some([commitment |-> c.value, encoded_message |-> m.value,
                   contract_addr |-> a.value]))))

\* width of the frame's length prefix (usize::to_le_bytes on the host)
FrameHeaderLen == 8

\* Frame with a 32-bit length prefix
Frame_u32(input_bytes) == LeBytes(Len(input_bytes), 4) \o input_bytes

\* host/src/lib.rs: the length prefix followed by the serialized input
Frame(input_bytes) == LeBytes(Len(input_bytes), FrameHeaderLen) \o input_bytes

\* env::read_frame: the payload announced by the length prefix, None when
\* stdin is shorter than announced
read_frame(stdin) ==
  Let(ParseU(stdin, FrameHeaderLen),
      LAMBDA n : IF ~n.ok \/ Len(n.rest) < n.value THEN None
                 ELSE Some(Take(n.rest, n.value)))

\* ------------------------------------------------------------- journal
\* a 32-byte big-endian word holding n (uint256 of the ABI)
Word(n) == [i \in 1..32 |-> IF i <= 28 THEN 0 ELSE (n \div (256 ^ (32 - i))) % 256]

\* the number a 32-byte word holds; -1 when it exceeds the modelled range
FromWord(w) ==
  IF \E i \in 1..28 : w[i] # 0 \/ w[29] >= 128 THEN -1
  ELSE 16777216 * w[29] + 65536 * w[30] + 256 * w[31] + w[32]

\* b followed by zero bytes up to a multiple of 32
PadLen(n) == ((n + 31) \div 32) * 32
Pad(b) == b \o [i \in 1..(PadLen(Len(b)) - Len(b)) |-> 0]

\* the hash of block n and the digest of the chain specification
BlockHash(n) == [i \in 1..32 |-> (37 * (n + 1) + i) % 256]
ChainSpecDigest == [i \in 1..32 |-> (101 + i) % 256]

\* Journal::abi_encode: one offset word, then the struct: the commitment's
\* three words, the offset of encodedMessage, emitterContract, and the tail
\* holding the message's length and padded bytes
abi_encode(journal) ==
  Word(32) \o Word(journal.commitment.id) \o journal.commitment.digest
    \o journal.commitment.configID \o Word(160) \o journal.emitterContract
    \o Word(Len(journal.encodedMessage)) \o Pad(journal.encodedMessage)

\* Journal::abi_decode: Some(journal), or None for bytes that do not encode one
WordAt(bytes, k) == SubSeq(bytes, 32 * k + 1, 32 * k + 32)

abi_decode(bytes) ==
  IF Len(bytes) < 224 THEN None
  ELSE Let(FromWord(WordAt(bytes, 6)), LAMBDA len :
         IF \/ FromWord(WordAt(bytes, 0)) # 32
            \/ FromWord(WordAt(bytes, 1)) < 0
            \/ FromWord(WordAt(bytes, 4)) # 160
            \/ len < 0
            \/ Len(bytes) # 224 + PadLen(len)
         THEN None
         ELSE Some([commitment |-> [id |-> FromWord(WordAt(bytes, 1)),
                                    digest |-> WordAt(bytes, 2),
                                    configID |-> WordAt(bytes, 3)],
                    encodedMessage |-> SubSeq(bytes, 225, 224 + len),
                    emitterContract |-> WordAt(bytes, 5)]))

\* ------------------------------------------------------------- steel
\* Event::address(a).query(): the SendTransceiverMessage events among the
\* block's logs that were emitted by address a, in block order
RECURSIVE query(_, _)
query(block_logs, a) ==
  IF block_logs = <<>> THEN <<>>
  ELSE IF Head(block_logs).address = a /\ IsSome(decode_log(Head(block_logs)))
       THEN <<Unwrap(decode_log(Head(block_logs)))>> \o query(Tail(block_logs), a)
       ELSE query(Tail(block_logs), a)

\* EvmInput::into_env: the execution context pinned to the captured block
into_env(commitment) == commitment

\* EvmEnv::into_commitment: the commitment to the commitment block
into_commitment(env) ==
  [id |-> env.commitment_block, digest |-> BlockHash(env.commitment_block),
   configID |-> ChainSpecDigest]

\* ------------------------------------------------------------- guest
EventNotInLogs == "Event for given message not contained in logs for this block"
DeserializeFailed == "Failed to deserialize input"
ReadFailed == "read_frame"

\* guest_query_address taking the leading 20 bytes of the universal address
guest_query_address_leading(input) == [i \in 1..20 |-> input.contract_addr[i]]

\* guest main: the address whose events are queried
guest_query_address(input) == from_wormhole_address(input.contract_addr)

\* guest_assert asking only that the query returned a log
guest_assert_nonempty(found, input) == Len(found) > 0

\* guest_assert comparing the first returned log only
guest_assert_first(found, input) ==
  Len(found) > 0 /\ found[1].encodedMessage = input.encoded_message

\* guest main: the asserted condition, some log carries the input's message
guest_assert(found, input) ==
  \E i \in 1..Len(found) : found[i].encodedMessage = input.encoded_message

\* guest_journal committing the payload of the first log the query returned
guest_journal_first_log(guest_env, input) ==
  [commitment |-> into_commitment(guest_env),
   encodedMessage |->
     query(guest_env.logs, from_wormhole_address(input.contract_addr))[1].encodedMessage,
   emitterContract |-> input.contract_addr]

\* guest_journal committing the emitter converted to the native address, as
\* the ABI word of an address
guest_journal_native(guest_env, input) ==
  [commitment |-> into_commitment(guest_env),
   encodedMessage |-> input.encoded_message,
   emitterContract |-> to_wormhole_address(from_wormhole_address(input.contract_addr))]

\* guest main: the journal committed after the assertion
guest_journal(guest_env, input) ==
  [commitment |-> into_commitment(guest_env),
   encodedMessage |-> input.encoded_message,
   emitterContract |-> input.contract_addr]

\* guest main: how the program exits on stdin, and the journal it commits
guest_run(input) ==
  Let(into_env(input.commitment), LAMBDA guest_env :
    Let(query(guest_env.logs, guest_query_address(input)), LAMBDA found :
      IF ~guest_assert(found, input)
      THEN [exit |-> EventNotInLogs, journal |-> None]
      ELSE [exit |-> "ok",
            journal |-> Some(abi_encode(guest_journal(guest_env, input)))]))

\* guest main: read the frame and deserialize the input, then run on it
guest_main(stdin) ==
  Let(read_frame(stdin), LAMBDA frame :
    IF frame = None THEN [exit |-> ReadFailed, journal |-> None]
    ELSE Let(deserialize(Unwrap(frame)), LAMBDA parsed :
           IF parsed = None THEN [exit |-> DeserializeFailed, journal |-> None]
           ELSE guest_run(Unwrap(parsed))))

\* ------------------------------------------------------------- prover
\* zkvm/src/lib.rs (methods.rs): the image id of the guest, eight u32 words
NTT_MESSAGE_INCLUSION_ID == <<11, 22, 33, 44, 55, 66, 77, 88>>

\* Digest::from([u32; 8]): the words as little-endian bytes
DigestFromWords(words) ==
  [i \in 1..32 |-> LeBytes(words[((i - 1) \div 4) + 1], 4)[((i - 1) % 4) + 1]]

\* Digest::from([u8; 32]): the bytes32 returned by imageID()
DigestFromBytes(bytes) == bytes

\* what a contract's imageID() may hold: the guest's id, the id with its
\* words in big-endian byte order, or zero
ImageIdValues ==
  {DigestFromWords(NTT_MESSAGE_INCLUSION_ID),
   [i \in 1..32 |-> DigestFromWords(NTT_MESSAGE_INCLUSION_ID)[33 - i]],
   [i \in 1..32 |-> 0]}

\* the kinds of receipt a prover may return
ReceiptKinds == {"groth16", "fake", "succinct"}
Groth16Selector == <<115, 196, 87, 186>>
FakeSelector == <<255, 255, 255, 255>>
SealBytes == <<9, 8, 7>>

\* risc0_ethereum_contracts::encode_seal: Some(selector and seal) for a
\* Groth16 or fake receipt, None for the other kinds
encode_seal(receipt) ==
  IF receipt.inner = "groth16" THEN Some(Groth16Selector \o receipt.seal)
  ELSE IF receipt.inner = "fake" THEN Some(FakeSelector \o receipt.seal)
  ELSE None

\* ------------------------------------------------------------- errors
NotFound == "No transaction found with given tx_hash"
NotIncluded == "Tx was not included in a block"
InvalidCommitmentBlock ==
  "commitment block must be greater than or equal to execution block"
EventNotFound == "No SendTransceiverMessage event found in transaction receipt"
EmptyMessage == "No encoded message found in SendTransceiverMessage event"
CommitmentMismatch == "Log with digest not found in contract"
TransportError == "transport error"
JoinError == "task join error"
ProofFailed == "failed to create proof"
InvalidJournal == "invalid journal"
InvalidReceipt == "invalid receipt"
ProgramIdentityMismatch ==
  "Contract image ID does not match image ID being used to build proofs"
DidNotConfirm == "transaction did not confirm"
TransactionFailed == "transaction failed"

\* ------------------------------------------------------------- state
VARIABLES
  args,               \* relay: the parsed command line
  pc,                 \* relay: the next step of main / build_proof / build_input
  outcome,            \* relay: main's result
  trace,              \* relay: the steps executed so far
  calls,              \* relay: the requests issued so far, with their endpoint
  provider,           \* main: the provider the destination contract is bound to
  receipt,            \* build_input: the transaction receipt
  execution_block,    \* build_input
  encoded_message,    \* build_input
  env,                \* build_input: the EthEvmEnv
  logs,               \* build_input: the preflight query's result
  evm_input,          \* build_input
  input,              \* build_input: the GuestInput
  env_input,          \* build_proof: the frame returned by build_input
  prove_info,         \* main: the prover's receipt
  journal,            \* main: the decoded Journal
  seal,               \* main
  contract_image_id,  \* main
  pending_tx,         \* main: the hash of the sent transaction
  tx_receipt,         \* main: the receipt of the sent transaction
  t_pc,               \* harness: the next step of a guest execution
  t_contract,         \* harness: the address of the deployed emitter
  t_input,            \* harness: the GuestInput
  t_stdin,            \* harness: the bytes written to the guest's stdin
  t_result,           \* harness: the execution's exit and journal
  c_input,            \* codec: the bytes a conversion chain starts from
  c_value,            \* codec: the result of the conversions applied so far
  c_path,             \* codec: the conversions applied so far
  worlds,             \* attempts: the arguments and chain state of each attempt
  attempts,           \* attempts: the locals of each build_proof future
  pool                \* runtime: the closures handed to spawn_blocking

buildVars ==
  <<receipt, execution_block, encoded_message, env, logs, evm_input, input>>
mainVars ==
  <<provider, env_input, prove_info, journal, seal, contract_image_id,
    pending_tx, tx_receipt>>
relayVars == <<args, pc, outcome, trace, calls>>
testVars == <<t_pc, t_contract, t_input, t_stdin, t_result>>
codecVars == <<c_input, c_value, c_path>>
concVars == <<worlds, attempts, pool>>
vars == <<relayVars, buildVars, mainVars, testVars, codecVars, concVars>>

\* the command lines of the model: the endpoints are distinct
ArgsSet ==
  [eth_rpc_url : {"http://source"}, dest_rpc_url : {"http://destination"},
   beacon_api_url : {"http://beacon"}, commitment_block : 0..MaxBlock,
   src_transceiver_addr : Addresses, dst_transceiver_addr : {AddrDst},
   tx_hash : {"0x5e"}]

Running == [status |-> "running", msg |-> "", tx_hash |-> ""]
Ok == [status |-> "Ok", msg |-> "", tx_hash |-> ""]
Err(msg) == [status |-> "Err", msg |-> msg, tx_hash |-> ""]
ErrTx(msg, hash) == [status |-> "Err", msg |-> msg, tx_hash |-> hash]

Request(url, to, method, params) ==
  [url |-> url, to |-> to, method |-> method, params |-> params]

NoAddress == <<>>

\* ------------------------------------------------------------- relay: main
Step(name) == trace' = Append(trace, name)
\* Fail with the error recorded and the run left where it was
Fail_recorded(msg) == pc' = pc /\ outcome' = Err(msg)
Fail(msg) == pc' = "done" /\ outcome' = Err(msg)
Goto(next) == pc' = next /\ outcome' = outcome

\* relay.rs main: the endpoint of the provider the destination contract
\* instance is created on
provider_url(a) == a.eth_rpc_url

\* relay.rs main: parse the arguments, create the provider, call build_proof
main_start ==
  /\ pc = "main"
  /\ provider' = Some([url |-> provider_url(args)])
  /\ Step("main") /\ Goto("get_transaction_receipt")
  /\ UNCHANGED <<args, calls, buildVars, env_input, prove_info, journal, seal,
                 contract_image_id, pending_tx, tx_receipt, testVars, codecVars, concVars>>

\* ------------------------------------------------------------- build_input
Receipts == [block_number : {None} \cup {Some(n) : n \in 0..MaxBlock}, logs : LogLists]

\* what the node may answer to get_transaction_receipt
ReceiptResponses ==
  {[err |-> TRUE, value |-> None], [err |-> FALSE, value |-> None]}
    \cup {[err |-> FALSE, value |-> Some(r)] : r \in Receipts}

\* build_input: fetch the receipt of tx_hash from rpc_url
get_transaction_receipt ==
  /\ pc = "get_transaction_receipt"
  /\ calls' = Append(calls, Request(args.eth_rpc_url, NoAddress,
                                    "eth_getTransactionReceipt", <<args.tx_hash>>))
  /\ Step("get_transaction_receipt")
  /\ \E resp \in ReceiptResponses :
       IF resp.err THEN Fail(TransportError) /\ receipt' = receipt
       ELSE IF resp.value = None THEN Fail(NotFound) /\ receipt' = receipt
       ELSE Goto("check_block") /\ receipt' = resp.value
  /\ UNCHANGED <<args, execution_block, encoded_message, env, logs, evm_input,
                 input, mainVars, testVars, codecVars, concVars>>

\* commitment_block_ok with a strict comparison
commitment_block_ok_strict(commitment_block, block) == commitment_block > block

\* build_input: the ensure! on the two block numbers
commitment_block_ok(commitment_block, block) == commitment_block >= block

\* build_input: take the receipt's block number and compare it with the
\* commitment block
check_block ==
  /\ pc = "check_block"
  /\ Step("check_block")
  /\ \E block_number \in {Unwrap(receipt).block_number} :
       IF block_number = None
       THEN Fail(NotIncluded) /\ execution_block' = execution_block
       ELSE /\ execution_block' = block_number
            /\ IF commitment_block_ok(args.commitment_block, Unwrap(block_number))
               THEN Goto("find_event")
               ELSE Fail(InvalidCommitmentBlock)
  /\ UNCHANGED <<args, calls, receipt, encoded_message, env, logs, evm_input,
                 input, mainVars, testVars, codecVars, concVars>>

\* find_map skipping the logs whose payload is empty
RECURSIVE find_map_nonempty(_, _)
find_map_nonempty(receipt_logs, contract_addr) ==
  IF receipt_logs = <<>> THEN None
  ELSE IF /\ Head(receipt_logs).address = contract_addr
          /\ IsSome(decode_log(Head(receipt_logs)))
          /\ Head(receipt_logs).encodedMessage # <<>>
       THEN Some(Head(receipt_logs).encodedMessage)
       ELSE find_map_nonempty(Tail(receipt_logs), contract_addr)

\* build_input: receipt.logs().iter().find_map(..), the payload of the first
\* log of contract_addr that decodes as SendTransceiverMessage
RECURSIVE find_map(_, _)
find_map(receipt_logs, contract_addr) ==
  IF receipt_logs = <<>> THEN None
  ELSE IF /\ Head(receipt_logs).address = contract_addr
          /\ IsSome(decode_log(Head(receipt_logs)))
       THEN Some(Unwrap(decode_log(Head(receipt_logs))).encodedMessage)
       ELSE find_map(Tail(receipt_logs), contract_addr)

\* build_input: scan the receipt's logs and reject an empty payload
find_event ==
  /\ pc = "find_event"
  /\ Step("find_event")
  /\ \E found \in {find_map(Unwrap(receipt).logs, args.src_transceiver_addr)} :
       IF found = None
       THEN Fail(EventNotFound) /\ encoded_message' = encoded_message
       ELSE /\ encoded_message' = found
            /\ IF Unwrap(found) # <<>> THEN Goto("build_env") ELSE Fail(EmptyMessage)
  /\ UNCHANGED <<args, calls, receipt, execution_block, env, logs, evm_input,
                 input, mainVars, testVars, codecVars, concVars>>

\* build_input: build the EthEvmEnv at the execution block with a beacon
\* commitment at the commitment block; the receipt is not used after the scan
build_env ==
  /\ pc = "build_env"
  /\ Step("build_env")
  /\ calls' = calls
       \o <<Request(args.eth_rpc_url, NoAddress, "eth_getBlockByNumber",
                    <<Unwrap(execution_block)>>),
            Request(args.beacon_api_url, NoAddress, "beacon_block",
                    <<args.commitment_block>>)>>
  /\ \E ok \in BOOLEAN :
       IF ok
       THEN /\ Goto("preflight")
            /\ env' = Some([block |-> Unwrap(execution_block),
                            commitment_block |-> args.commitment_block,
                            logs |-> <<>>])
       ELSE Fail(TransportError) /\ env' = env
  /\ receipt' = None
  /\ UNCHANGED <<args, execution_block, encoded_message, logs, evm_input, input,
                 mainVars, testVars, codecVars, concVars>>

\* preflight_ok asking only that the query returned a log
preflight_ok_nonempty(found, message) == Len(found) > 0

\* build_input: the ensure! on the preflight logs
preflight_ok(found, message) ==
  \E i \in 1..Len(found) : found[i].encodedMessage = message

\* build_input: the preflight event query at contract_addr over the env; the
\* node answers with the logs of the execution block
preflight ==
  /\ pc = "preflight"
  /\ Step("preflight")
  /\ calls' = Append(calls, Request(args.eth_rpc_url, args.src_transceiver_addr,
                                    "eth_getLogs", <<Unwrap(env).block>>))
  /\ \E ok \in BOOLEAN, block_logs \in LogLists :
       IF ~ok
       THEN /\ block_logs = <<>>
            /\ Fail(TransportError) /\ env' = env /\ logs' = logs
       ELSE /\ env' = Some([Unwrap(env) EXCEPT !.logs = block_logs])
            /\ logs' = Some(query(block_logs, args.src_transceiver_addr))
            /\ IF preflight_ok(Unwrap(logs'), Unwrap(encoded_message))
               THEN Goto("into_input")
               ELSE Fail(CommitmentMismatch)
  /\ UNCHANGED <<args, receipt, execution_block, encoded_message, evm_input,
                 input, mainVars, testVars, codecVars, concVars>>

\* build_input: env.into_input(), which consumes the env
into_input ==
  /\ pc = "into_input"
  /\ Step("into_input")
  /\ calls' = Append(calls, Request(args.eth_rpc_url, NoAddress,
                                    "eth_getBlockReceipts", <<Unwrap(env).block>>))
  /\ \E ok \in BOOLEAN :
       IF ok
       THEN Goto("serialize") /\ evm_input' = env /\ env' = None
       ELSE Fail(TransportError) /\ evm_input' = evm_input /\ env' = env
  /\ UNCHANGED <<args, receipt, execution_block, encoded_message, logs, input,
                 mainVars, testVars, codecVars, concVars>>

\* build_input: the GuestInput assembled from the evm input
guest_input(commitment, contract_addr, message) ==
  [commitment |-> commitment,
   contract_addr |-> to_wormhole_address(contract_addr),
   encoded_message |-> message]

\* build_input: assemble the GuestInput, serialize it, frame it and return
\* the frame to build_proof; build_input's locals end here
serialize_input ==
  /\ pc = "serialize"
  /\ Step("serialize")
  /\ input' = Some(guest_input(Unwrap(evm_input), args.src_transceiver_addr,
                               Unwrap(encoded_message)))
  /\ env_input' = Some(Frame(serialize(Unwrap(input'))))
  /\ evm_input' = None
  /\ Goto("prove")
  /\ UNCHANGED <<args, calls, receipt, execution_block, encoded_message, env,
                 logs, provider, prove_info, journal, seal, contract_image_id,
                 pending_tx, tx_receipt, testVars, codecVars, concVars>>

\* ------------------------------------------------------------- build_proof
\* what the blocking task may end in: the join fails, the prover fails for a
\* reason of its own, or it runs the guest and returns a receipt of some kind
ProverOutcomes == {"join_error", "prover_error"} \cup ReceiptKinds

\* prove asking the prover again after a failure of the prover or the guest
prove_retrying ==
  /\ pc = "prove"
  /\ Step("prove")
  /\ \E run \in {guest_main(Unwrap(env_input))}, res \in ProverOutcomes :
       IF res = "join_error"
       THEN Fail(JoinError) /\ prove_info' = prove_info /\ env_input' = None
       ELSE IF res = "prover_error" \/ run.exit # "ok"
       THEN Goto("prove") /\ prove_info' = prove_info /\ env_input' = env_input
       ELSE /\ Goto("decode_journal")
            /\ prove_info' = Some([journal |-> Unwrap(run.journal), inner |-> res,
                                   seal |-> SealBytes])
            /\ env_input' = None
  /\ execution_block' = None /\ encoded_message' = None /\ logs' = None
  /\ input' = None
  /\ UNCHANGED <<args, calls, receipt, env, evm_input, provider, journal, seal,
                 contract_image_id, pending_tx, tx_receipt, testVars, codecVars, concVars>>

\* build_proof: hand the frame to the prover on a blocking task and await it;
\* the frame moves into the task and build_input's values are gone
prove ==
  /\ pc = "prove"
  /\ Step("prove")
  /\ \E run \in {guest_main(Unwrap(env_input))}, res \in ProverOutcomes :
       IF res = "join_error" THEN Fail(JoinError) /\ prove_info' = prove_info
       ELSE IF res = "prover_error" \/ run.exit # "ok"
       THEN Fail(ProofFailed) /\ prove_info' = prove_info
       ELSE /\ Goto("decode_journal")
            /\ prove_info' = Some([journal |-> Unwrap(run.journal), inner |-> res,
                                   seal |-> SealBytes])
  /\ env_input' = None
  /\ execution_block' = None /\ encoded_message' = None /\ logs' = None
  /\ input' = None
  /\ UNCHANGED <<args, calls, receipt, env, evm_input, provider, journal, seal,
                 contract_image_id, pending_tx, tx_receipt, testVars, codecVars, concVars>>

\* ------------------------------------------------------------- relay: main
\* main: Journal::abi_decode of the receipt's journal
decode_journal ==
  /\ pc = "decode_journal"
  /\ Step("decode_journal")
  /\ \E decoded \in {abi_decode(Unwrap(prove_info).journal)} :
       IF decoded = None THEN Fail(InvalidJournal) /\ journal' = journal
       ELSE Goto("encode_seal") /\ journal' = decoded
  /\ UNCHANGED <<args, calls, buildVars, provider, env_input, prove_info, seal,
                 contract_image_id, pending_tx, tx_receipt, testVars, codecVars, concVars>>

\* encode_seal_step going on with an empty seal when the receipt has none
encode_seal_step_lenient ==
  /\ pc = "encode_seal"
  /\ Step("encode_seal")
  /\ \E encoded \in {encode_seal(Unwrap(prove_info))} :
       IF encoded = None THEN Goto("image_id") /\ seal' = Some(<<>>)
       ELSE Goto("image_id") /\ seal' = encoded
  /\ UNCHANGED <<args, calls, buildVars, provider, env_input, prove_info, journal,
                 contract_image_id, pending_tx, tx_receipt, testVars, codecVars, concVars>>

\* main: encode_seal(&receipt)
encode_seal_step ==
  /\ pc = "encode_seal"
  /\ Step("encode_seal")
  /\ \E encoded \in {encode_seal(Unwrap(prove_info))} :
       IF encoded = None THEN Fail(InvalidReceipt) /\ seal' = seal
       ELSE Goto("image_id") /\ seal' = encoded
  /\ UNCHANGED <<args, calls, buildVars, provider, env_input, prove_info, journal,
                 contract_image_id, pending_tx, tx_receipt, testVars, codecVars, concVars>>

\* main: contract.imageID().call() on the contract instance
image_id ==
  /\ pc = "image_id"
  /\ Step("image_id")
  /\ calls' = Append(calls, Request(Unwrap(provider).url, args.dst_transceiver_addr,
                                    "imageID", <<>>))
  /\ \E ok \in BOOLEAN, value \in ImageIdValues :
       IF ~ok
       THEN /\ value = DigestFromWords(NTT_MESSAGE_INCLUSION_ID)
            /\ Fail(TransportError) /\ contract_image_id' = contract_image_id
       ELSE Goto("check_image_id") /\ contract_image_id' = Some(DigestFromBytes(value))
  /\ UNCHANGED <<args, buildVars, provider, env_input, prove_info, journal, seal,
                 pending_tx, tx_receipt, testVars, codecVars, concVars>>

\* image_id_ok with the comparison left out
image_id_ok_unchecked(id) == TRUE

\* main: the ensure! on the image id
image_id_ok(id) == id = DigestFromWords(NTT_MESSAGE_INCLUSION_ID)

\* main: compare the contract's image id with the guest's
check_image_id ==
  /\ pc = "check_image_id"
  /\ Step("check_image_id")
  /\ IF image_id_ok(Unwrap(contract_image_id)) THEN Goto("send")
     ELSE Fail(ProgramIdentityMismatch)
  /\ UNCHANGED <<args, calls, buildVars, mainVars, testVars, codecVars, concVars>>

\* main: the arguments handed to contract.receiveMessage, in order
receiveMessage_args(journal_bytes, seal_bytes) == <<journal_bytes, seal_bytes, <<>>>>

TxHashes == {"0xd1", "0xd2"}

\* main: build the receiveMessage call and send it
send ==
  /\ pc = "send"
  /\ Step("send")
  /\ calls' = Append(calls,
       Request(Unwrap(provider).url, args.dst_transceiver_addr, "receiveMessage",
               receiveMessage_args(Unwrap(prove_info).journal, Unwrap(seal))))
  /\ \E ok \in BOOLEAN, hash \in TxHashes :
       IF ~ok
       THEN /\ hash = "0xd1"
            /\ Fail(TransportError) /\ pending_tx' = pending_tx
       ELSE Goto("get_receipt") /\ pending_tx' = Some(hash)
  /\ UNCHANGED <<args, buildVars, provider, env_input, prove_info, journal, seal,
                 contract_image_id, tx_receipt, testVars, codecVars, concVars>>

\* get_receipt with the failure to confirm swallowed
get_receipt_unchecked ==
  /\ pc = "get_receipt"
  /\ Step("get_receipt")
  /\ calls' = Append(calls, Request(Unwrap(provider).url, NoAddress,
                                    "eth_getTransactionReceipt", pending_tx))
  /\ \E ok \in BOOLEAN, status \in BOOLEAN :
       IF ~ok
       THEN /\ status = FALSE
            /\ pc' = "done" /\ outcome' = Ok
            /\ tx_receipt' = tx_receipt
       ELSE Goto("check_status") /\ tx_receipt' = Some([status |-> status])
  /\ UNCHANGED <<args, buildVars, provider, env_input, prove_info, journal, seal,
                 contract_image_id, pending_tx, testVars, codecVars, concVars>>

\* main: pending_tx.get_receipt()
get_receipt ==
  /\ pc = "get_receipt"
  /\ Step("get_receipt")
  /\ calls' = Append(calls, Request(Unwrap(provider).url, NoAddress,
                                    "eth_getTransactionReceipt", pending_tx))
  /\ \E ok \in BOOLEAN, status \in BOOLEAN :
       IF ~ok
       THEN /\ status = FALSE
            /\ pc' = "done" /\ outcome' = ErrTx(DidNotConfirm, Unwrap(pending_tx))
            /\ tx_receipt' = tx_receipt
       ELSE Goto("check_status") /\ tx_receipt' = Some([status |-> status])
  /\ UNCHANGED <<args, buildVars, provider, env_input, prove_info, journal, seal,
                 contract_image_id, pending_tx, testVars, codecVars, concVars>>

\* check_status with the receipt's status ignored
check_status_ignoring ==
  /\ pc = "check_status"
  /\ Step("check_status")
  /\ pc' = "done"
  /\ outcome' = Ok
  /\ UNCHANGED <<args, calls, buildVars, mainVars, testVars, codecVars, concVars>>

\* main: the ensure! on the receipt's status, then Ok(())
check_status ==
  /\ pc = "check_status"
  /\ Step("check_status")
  /\ pc' = "done"
  /\ outcome' = IF Unwrap(tx_receipt).status THEN Ok
                ELSE ErrTx(TransactionFailed, Unwrap(pending_tx))
  /\ UNCHANGED <<args, calls, buildVars, mainVars, testVars, codecVars, concVars>>

\* ------------------------------------------------------------- harness
\* the 12 high bytes a universal address may carry
HighBytes == {[i \in 1..12 |-> 0], [i \in 1..12 |-> IF i = 1 THEN 1 ELSE 0]}
UniversalAddresses == {h \o a : h \in HighBytes, a \in Addresses}

\* the inputs a guest execution may be given: the chain state captured at a
\* block, a message and a universal address
EvmInputs == [block : 0..MaxBlock, commitment_block : 0..MaxBlock, logs : LogLists]
GuestInputs ==
  {[commitment |-> c, contract_addr |-> u, encoded_message |-> m] :
     c \in {e \in EvmInputs : e.commitment_block = e.block},
     u \in UniversalAddresses, m \in Messages}

\* run_tests: write the serialized input as a frame to the guest's stdin
write_frame ==
  /\ t_pc = "write_frame"
  /\ t_stdin' = Some(Frame(serialize(Unwrap(t_input))))
  /\ t_pc' = "execute"
  /\ UNCHANGED <<relayVars, buildVars, mainVars, t_contract, t_input, t_result,
                 codecVars, concVars>>

\* run_tests: execute the guest on stdin
execute ==
  /\ t_pc = "execute"
  /\ t_result' = Some(guest_main(Unwrap(t_stdin)))
  /\ t_pc' = "done"
  /\ UNCHANGED <<relayVars, buildVars, mainVars, t_contract, t_input, t_stdin,
                 codecVars, concVars>>

\* ------------------------------------------------------------- address codec
\* 20-byte addresses: the emitters, the zero address, and one byte set at
\* every position
CodecBytes == {1, 255}
CodecAddresses ==
  Addresses \cup {[i \in 1..20 |-> 0]}
    \cup {[i \in 1..20 |-> IF i = k THEN v ELSE 0] : k \in 1..20, v \in CodecBytes}

\* the high 12 bytes of a 32-byte value: all zero, or one byte set
CodecHighBytes ==
  {[i \in 1..12 |-> 0]}
    \cup {[i \in 1..12 |-> IF i = k THEN v ELSE 0] : k \in 1..12, v \in CodecBytes}
CodecLowBytes ==
  Addresses \cup {[i \in 1..20 |-> 0]}
    \cup {[i \in 1..20 |-> IF i = k THEN 255 ELSE 0] : k \in {1, 20}}
CodecUniversals == {h \o a : h \in CodecHighBytes, a \in CodecLowBytes}

\* the longest chain of conversions applied to one value
CodecDepth == 2

\* apply to_wormhole_address to a 20-byte value
apply_to_wormhole_address ==
  /\ Len(c_path) < CodecDepth
  /\ Len(c_value) = 20
  /\ c_value' = to_wormhole_address(c_value)
  /\ c_path' = Append(c_path, "to_wormhole_address")
  /\ UNCHANGED <<relayVars, buildVars, mainVars, testVars, c_input, concVars>>

\* apply from_wormhole_address to a 32-byte value
apply_from_wormhole_address ==
  /\ Len(c_path) < CodecDepth
  /\ Len(c_value) = 32
  /\ c_value' = from_wormhole_address(c_value)
  /\ c_path' = Append(c_path, "from_wormhole_address")
  /\ UNCHANGED <<relayVars, buildVars, mainVars, testVars, c_input, concVars>>

\* ------------------------------------------------------------- concurrent attempts
\* the number of build_proof futures polled by one runtime
MaxAttempts == 2
Attempts == 1..MaxAttempts

SendLog(address, message) ==
  [address |-> address, topic0 |-> SendTransceiverMessage, recipientChain |-> 3,
   encodedMessage |-> message]

\* the arguments of an attempt and what the chain and the prover answer to it
World(contract_addr, tx_receipt_value, block_logs, prover) ==
  [contract_addr |-> contract_addr, commitment_block |-> 0,
   receipt |-> tx_receipt_value, block_logs |-> block_logs, prover |-> prover]
ReceiptOf(address, message) ==
  Some([block_number |-> Some(0), logs |-> <<SendLog(address, message)>>])
ConcWorlds ==
  {World(AddrA, None, <<>>, "groth16"),
   World(AddrA, ReceiptOf(AddrA, MsgExpected), <<SendLog(AddrA, MsgExpected)>>, "groth16"),
   World(AddrB, ReceiptOf(AddrB, MsgOther), <<SendLog(AddrB, MsgOther)>>, "groth16"),
   World(AddrA, ReceiptOf(AddrA, MsgOther), <<SendLog(AddrA, MsgOther)>>, "prover_error"),
   World(AddrB, ReceiptOf(AddrB, MsgExpected), <<>>, "groth16")}

ProofRunning == [status |-> "running", msg |-> "", journal |-> <<>>]
ProofErr(msg) == [status |-> "Err", msg |-> msg, journal |-> <<>>]
ProofOk(journal_bytes) == [status |-> "Ok", msg |-> "", journal |-> journal_bytes]

NewAttempt ==
  [pc |-> "get_transaction_receipt", execution_block |-> None,
   encoded_message |-> None, env |-> None, result |-> ProofRunning]

\* the closure run on the async worker that polls the futures
spawn_inline(owner, frame) ==
  [owner |-> owner, env_input |-> frame, context |-> "async_worker",
   state |-> "queued", output |-> ProofRunning]

\* task::spawn_blocking(move || ..): the closure owns the frame and runs on
\* the runtime's blocking pool
spawn_blocking(owner, frame) ==
  [owner |-> owner, env_input |-> frame, context |-> "blocking_pool",
   state |-> "queued", output |-> ProofRunning]

\* the async worker is free to poll a future unless a closure runs on it
AsyncWorkerFree ==
  \A i \in 1..Len(pool) :
    ~(pool[i].context = "async_worker" /\ pool[i].state = "running")

AttemptFail(a, msg) ==
  attempts' = [attempts EXCEPT ![a].pc = "done", ![a].result = ProofErr(msg)]

\* build_input: the receipt arrives; block number, commitment block order,
\* log scan and the empty-payload check follow without an await
attempt_receipt(a) ==
  /\ attempts[a].pc = "get_transaction_receipt"
  /\ AsyncWorkerFree
  /\ \E r \in {worlds[a].receipt} :
       IF r = None THEN AttemptFail(a, NotFound)
       ELSE IF Unwrap(r).block_number = None THEN AttemptFail(a, NotIncluded)
       ELSE IF ~commitment_block_ok(worlds[a].commitment_block,
                                    Unwrap(Unwrap(r).block_number))
       THEN AttemptFail(a, InvalidCommitmentBlock)
       ELSE \E found \in {find_map(Unwrap(r).logs, worlds[a].contract_addr)} :
              IF found = None THEN AttemptFail(a, EventNotFound)
              ELSE IF Unwrap(found) = <<>> THEN AttemptFail(a, EmptyMessage)
              ELSE attempts' = [attempts EXCEPT
                     ![a].pc = "build_env",
                     ![a].execution_block = Unwrap(r).block_number,
                     ![a].encoded_message = found]
  /\ UNCHANGED <<relayVars, buildVars, mainVars, testVars, codecVars, worlds, pool>>

\* build_input: the EthEvmEnv is built
attempt_env(a) ==
  /\ attempts[a].pc = "build_env"
  /\ AsyncWorkerFree
  /\ attempts' = [attempts EXCEPT
       ![a].pc = "preflight",
       ![a].env = Some([block |-> Unwrap(attempts[a].execution_block),
                        commitment_block |-> worlds[a].commitment_block,
                        logs |-> <<>>])]
  /\ UNCHANGED <<relayVars, buildVars, mainVars, testVars, codecVars, worlds, pool>>

\* build_input: the preflight query answers; on a match the input is
\* assembled, serialized and framed, and build_proof hands the frame to
\* spawn_blocking and awaits the join handle
attempt_preflight(a) ==
  /\ attempts[a].pc = "preflight"
  /\ AsyncWorkerFree
  /\ \E block_logs \in {worlds[a].block_logs} :
       IF ~preflight_ok(query(block_logs, worlds[a].contract_addr),
                        Unwrap(attempts[a].encoded_message))
       THEN AttemptFail(a, CommitmentMismatch) /\ pool' = pool
       ELSE /\ attempts' = [attempts EXCEPT
                 ![a].pc = "join", ![a].execution_block = None,
                 ![a].encoded_message = None, ![a].env = None]
            /\ pool' = Append(pool, spawn_blocking(a,
                 Frame(serialize(guest_input(
                   [Unwrap(attempts[a].env) EXCEPT !.logs = block_logs],
                   worlds[a].contract_addr,
                   Unwrap(attempts[a].encoded_message))))))
  /\ UNCHANGED <<relayVars, buildVars, mainVars, testVars, codecVars, worlds>>

\* the frame of the closure at position i, taken from the head of the queue
task_env_input_head(i) == pool[1].env_input

\* the frame the closure at position i of the pool owns
task_env_input(i) == pool[i].env_input

\* a thread starts running a queued closure: a thread of the blocking pool,
\* or the async worker when it is free
blocking_start(i) ==
  /\ i \in 1..Len(pool)
  /\ pool[i].state = "queued"
  /\ pool[i].context = "async_worker" => AsyncWorkerFree
  /\ pool' = [pool EXCEPT ![i].state = "running"]
  /\ UNCHANGED <<relayVars, buildVars, mainVars, testVars, codecVars, worlds,
                 attempts>>

\* the closure returns: the prover ran the guest on the frame
blocking_finish(i) ==
  /\ i \in 1..Len(pool)
  /\ pool[i].state = "running"
  /\ \E run \in {guest_main(task_env_input(i))} :
       pool' = [pool EXCEPT
         ![i].state = "finished",
         ![i].output =
           IF worlds[pool[i].owner].prover = "prover_error" \/ run.exit # "ok"
           THEN ProofErr(ProofFailed)
           ELSE ProofOk(Unwrap(run.journal))]
  /\ UNCHANGED <<relayVars, buildVars, mainVars, testVars, codecVars, worlds,
                 attempts>>

\* build_proof: the join handle resolves and build_proof returns
attempt_join(a) ==
  /\ attempts[a].pc = "join"
  /\ AsyncWorkerFree
  /\ \E i \in 1..Len(pool) :
       /\ pool[i].owner = a
       /\ pool[i].state = "finished"
       /\ attempts' = [attempts EXCEPT ![a].pc = "done", ![a].result = pool[i].output]
       /\ pool' = SubSeq(pool, 1, i - 1) \o SubSeq(pool, i + 1, Len(pool))
  /\ UNCHANGED <<relayVars, buildVars, mainVars, testVars, codecVars, worlds>>

\* ------------------------------------------------------------- specifications
ConcIdle == worlds = <<>> /\ attempts = <<>> /\ pool = <<>>

CodecIdle == c_input = <<>> /\ c_value = <<>> /\ c_path = <<>>

RelayIdle ==
  /\ pc = "idle" /\ outcome = Running /\ trace = <<>> /\ calls = <<>>
  /\ args \in {a \in ArgsSet : a.commitment_block = 0 /\ a.src_transceiver_addr = AddrA}
  /\ provider = None /\ receipt = None /\ execution_block = None
  /\ encoded_message = None /\ env = None /\ logs = None /\ evm_input = None
  /\ input = None /\ env_input = None /\ prove_info = None /\ journal = None
  /\ seal = None /\ contract_image_id = None /\ pending_tx = None
  /\ tx_receipt = None

HarnessIdle ==
  /\ t_pc = "idle" /\ t_contract = None /\ t_input = None /\ t_stdin = None
  /\ t_result = None

\* a relay run: the state after Args::try_parse
Init ==
  /\ pc = "main" /\ outcome = Running /\ trace = <<>> /\ calls = <<>>
  /\ args \in ArgsSet
  /\ provider = None /\ receipt = None /\ execution_block = None
  /\ encoded_message = None /\ env = None /\ logs = None /\ evm_input = None
  /\ input = None /\ env_input = None /\ prove_info = None /\ journal = None
  /\ seal = None /\ contract_image_id = None /\ pending_tx = None
  /\ tx_receipt = None
  /\ HarnessIdle
  /\ CodecIdle
  /\ ConcIdle

Next ==
  \/ main_start
  \/ get_transaction_receipt
  \/ check_block
  \/ find_event
  \/ build_env
  \/ preflight
  \/ into_input
  \/ serialize_input
  \/ prove
  \/ decode_journal
  \/ encode_seal_step
  \/ image_id
  \/ check_image_id
  \/ send
  \/ get_receipt
  \/ check_status

Spec == Init /\ [][Next]_vars

\* a guest execution: an emitter contract, and an input assembled by the
\* caller whose contract_addr holds the emitter's address in its low 20 bytes
GuestInit ==
  /\ RelayIdle
  /\ t_pc = "write_frame"
  /\ t_contract \in {Some(a) : a \in Addresses}
  /\ t_input \in {Some(i) : i \in {g \in GuestInputs :
                    from_wormhole_address(g.contract_addr) = Unwrap(t_contract)}}
  /\ t_stdin = None /\ t_result = None
  /\ CodecIdle
  /\ ConcIdle

GuestNext ==
  \/ write_frame
  \/ execute

GuestSpec == GuestInit /\ [][GuestNext]_vars

\* the address codec: a 20-byte address or a 32-byte universal address, and the
\* conversions applied to it
CodecInit ==
  /\ RelayIdle
  /\ HarnessIdle
  /\ c_input \in CodecAddresses \cup CodecUniversals
  /\ c_value = c_input
  /\ c_path = <<>>
  /\ ConcIdle

CodecNext ==
  \/ apply_to_wormhole_address
  \/ apply_from_wormhole_address

CodecSpec == CodecInit /\ [][CodecNext]_vars

\* several build_proof futures polled by one runtime, each with its own
\* arguments and chain state
ConcInit ==
  /\ RelayIdle
  /\ HarnessIdle
  /\ CodecIdle
  /\ worlds \in [Attempts -> ConcWorlds]
  /\ attempts = [a \in Attempts |-> NewAttempt]
  /\ pool = <<>>

ConcNext ==
  \/ \E a \in Attempts : attempt_receipt(a)
  \/ \E a \in Attempts : attempt_env(a)
  \/ \E a \in Attempts : attempt_preflight(a)
  \/ \E i \in Attempts : blocking_start(i)
  \/ \E i \in Attempts : blocking_finish(i)
  \/ \E a \in Attempts : attempt_join(a)

ConcSpec == ConcInit /\ [][ConcNext]_vars

\* ------------------------------------------------------------- properties
CallIndexes == 1..Len(calls)
IsSend(i) == calls[i].method = "receiveMessage"
IsImageIdQuery(i) == calls[i].method = "imageID"
ProvingIdentity == DigestFromWords(NTT_MESSAGE_INCLUSION_ID)

\* C1: a receiveMessage transaction is sent only after the imageID of the
\* contract it is sent to was read in the same run and found equal to
\* NTT_MESSAGE_INCLUSION_ID; when the identity read differs, the run ends in
\* the identity-mismatch error and no transaction is sent.
C1_IdentityCheckedBeforeSend ==
  /\ \A i \in CallIndexes :
       IsSend(i) =>
         /\ \E j \in 1..(i - 1) :
              /\ IsImageIdQuery(j)
              /\ calls[j].to = calls[i].to
              /\ calls[j].url = calls[i].url
         /\ IsSome(contract_image_id)
         /\ Unwrap(contract_image_id) = ProvingIdentity
  /\ (IsSome(contract_image_id) /\ Unwrap(contract_image_id) # ProvingIdentity) =>
       /\ \A i \in CallIndexes : ~IsSend(i)
       /\ pending_tx = None
       /\ \/ pc = "check_image_id" /\ outcome = Running
          \/ pc = "done" /\ outcome = Err(ProgramIdentityMismatch)

\* C1 witness: a transaction was sent after a matching identity was read
C1_Witness ==
  /\ \E i \in CallIndexes : IsSend(i)
  /\ IsSome(pending_tx)
  /\ Unwrap(contract_image_id) = ProvingIdentity

\* C2: the arguments of receiveMessage are, in order, the original message
\* bytes, the journal bytes returned by the prover, and the encoded seal.
C2_ReceiveMessageArguments ==
  \A i \in CallIndexes :
    IsSend(i) =>
      calls[i].params = <<Unwrap(journal).encodedMessage,
                          Unwrap(prove_info).journal,
                          Unwrap(seal)>>

\* C3: the imageID query and the receiveMessage transaction go to
\* dest_rpc_url, the receipt fetch and the preflight query go to
\* eth_rpc_url, and no request addressed to the destination contract goes to
\* eth_rpc_url.
C3_DestinationEndpoint ==
  \A i \in CallIndexes :
    /\ (IsImageIdQuery(i) \/ IsSend(i)) => calls[i].url = args.dest_rpc_url
    /\ calls[i].method = "eth_getLogs" => calls[i].url = args.eth_rpc_url
    /\ (calls[i].method = "eth_getTransactionReceipt" /\ calls[i].params = <<args.tx_hash>>)
         => calls[i].url = args.eth_rpc_url
    /\ calls[i].to = args.dst_transceiver_addr => calls[i].url # args.eth_rpc_url

\* the guest execution of the harness
TDone == t_pc = "done"
TInput == Unwrap(t_input)
TExit == Unwrap(t_result).exit
TJournal == Unwrap(t_result).journal
TBlockLogs == TInput.commitment.logs

\* the SendTransceiverMessage logs of the captured block emitted by the
\* harness's contract, and those among them carrying the input's message
TContractLogs ==
  {i \in 1..Len(TBlockLogs) :
     /\ TBlockLogs[i].address = Unwrap(t_contract)
     /\ TBlockLogs[i].topic0 = SendTransceiverMessage}
TMatchingLogs ==
  {i \in TContractLogs : TBlockLogs[i].encodedMessage = TInput.encoded_message}

\* C4: when no SendTransceiverMessage log of the queried contract in the
\* block carries the input's message, the program aborts with the assertion
\* message and commits no journal.
C4_NoMatchAborts ==
  (TDone /\ TMatchingLogs = {}) => (TExit = EventNotInLogs /\ TJournal = None)

\* C4 witness: the contract emitted the event, with another payload only
C4_Witness ==
  /\ TDone /\ TMatchingLogs = {} /\ TContractLogs # {}
  /\ TExit = EventNotInLogs

\* C5: the program succeeds whenever some log of the queried contract
\* carries the input's message, whatever the other logs and the
\* recipientChain values are.
C5_AnyMatchSucceeds ==
  (TDone /\ TMatchingLogs # {}) => (TExit = "ok" /\ IsSome(TJournal))

\* C5 witness: a non-matching log of the contract precedes the matching one,
\* and the two name different recipient chains
C5_Witness ==
  /\ TDone /\ TExit = "ok"
  /\ TContractLogs = {1, 2} /\ TMatchingLogs = {2}
  /\ TBlockLogs[1].recipientChain # TBlockLogs[2].recipientChain

\* C6: when the program succeeds on an input built for contract c and
\* message m, the journal decodes, its encodedMessage is m and
\* from_wormhole_address of its emitterContract is c.
C6_JournalOfBuiltInput ==
  (/\ TDone /\ TExit = "ok"
   /\ TInput.contract_addr = to_wormhole_address(Unwrap(t_contract)))
  => /\ IsSome(abi_decode(Unwrap(TJournal)))
     /\ Unwrap(abi_decode(Unwrap(TJournal))).encodedMessage = TInput.encoded_message
     /\ from_wormhole_address(Unwrap(abi_decode(Unwrap(TJournal))).emitterContract)
          = Unwrap(t_contract)

\* C6 witness: a success where another payload of the contract comes first
C6_Witness ==
  /\ TDone /\ TExit = "ok"
  /\ TInput.contract_addr = to_wormhole_address(Unwrap(t_contract))
  /\ TInput.encoded_message = MsgExpected
  /\ 1 \in TContractLogs /\ 1 \notin TMatchingLogs

Did(step) == \E i \in 1..Len(trace) : trace[i] = step
Requested(method) == \E i \in CallIndexes : calls[i].method = method

\* C8: build_input returns an input only when commitment_block >= the
\* execution block (equal blocks are accepted); a smaller commitment block
\* fails with the invalid-commitment-block error before the logs are scanned
\* and before the preflight query; an absent receipt fails earlier with
\* NotFound and a receipt without block number with NotIncluded.
C8_CommitmentBlockOrder ==
  /\ (pc = "prove" \/ IsSome(env_input)) =>
       /\ IsSome(execution_block)
       /\ args.commitment_block >= Unwrap(execution_block)
  /\ outcome = Err(InvalidCommitmentBlock) <=>
       /\ Did("check_block") /\ IsSome(receipt)
       /\ IsSome(Unwrap(receipt).block_number)
       /\ args.commitment_block < Unwrap(Unwrap(receipt).block_number)
  /\ outcome = Err(InvalidCommitmentBlock) =>
       /\ pc = "done"
       /\ ~Did("find_event") /\ ~Did("preflight") /\ ~Requested("eth_getLogs")
       /\ encoded_message = None /\ env_input = None
  /\ outcome = Err(NotIncluded) <=>
       /\ Did("check_block") /\ IsSome(receipt)
       /\ Unwrap(receipt).block_number = None
  /\ outcome = Err(NotIncluded) =>
       /\ pc = "done"
       /\ trace = <<"main", "get_transaction_receipt", "check_block">>
       /\ execution_block = None
  /\ outcome = Err(NotFound) =>
       /\ pc = "done"
       /\ trace = <<"main", "get_transaction_receipt">>
       /\ receipt = None /\ execution_block = None

\* C8 witness: build_input returned an input for equal blocks
C8_Witness ==
  /\ pc = "prove" /\ IsSome(env_input)
  /\ args.commitment_block = Unwrap(execution_block)
  /\ args.commitment_block > 0

\* the logs of the receipt that qualify, and the first of them
Qualifies(log) ==
  log.address = args.src_transceiver_addr /\ log.topic0 = SendTransceiverMessage
FirstQualifying(receipt_logs) ==
  {i \in 1..Len(receipt_logs) :
     /\ Qualifies(receipt_logs[i])
     /\ \A j \in 1..(i - 1) : ~Qualifies(receipt_logs[j])}

\* C9: the message relayed is the payload of the first log of the receipt
\* emitted by the source contract that decodes as SendTransceiverMessage; no
\* such log fails with the event-not-found error, and an empty payload of
\* that first log fails with the empty-message error whatever follows it.
C9_FirstQualifyingLog ==
  /\ (Did("find_event") /\ IsSome(receipt)) =>
       /\ FirstQualifying(Unwrap(receipt).logs) = {} =>
            (outcome = Err(EventNotFound) /\ encoded_message = None)
       /\ \A i \in FirstQualifying(Unwrap(receipt).logs) :
            /\ encoded_message = Some(Unwrap(receipt).logs[i].encodedMessage)
            /\ Unwrap(receipt).logs[i].encodedMessage = <<>> =>
                 outcome = Err(EmptyMessage)
            /\ Unwrap(receipt).logs[i].encodedMessage # <<>> =>
                 (pc = "build_env" /\ outcome = Running)
  /\ (outcome = Err(EventNotFound) \/ outcome = Err(EmptyMessage)) =>
       (pc = "done" /\ IsSome(receipt) /\ ~Did("build_env") /\ env_input = None)
  /\ IsSome(input) =>
       (/\ IsSome(encoded_message)
        /\ Unwrap(input).encoded_message = Unwrap(encoded_message)
        /\ Unwrap(encoded_message) # <<>>)

\* C9 witness: the first qualifying log is empty, a later one is not
C9_Witness ==
  /\ outcome = Err(EmptyMessage)
  /\ \E i \in 1..Len(Unwrap(receipt).logs) :
       /\ Qualifies(Unwrap(receipt).logs[i])
       /\ Unwrap(receipt).logs[i].encodedMessage # <<>>

\* the block logs captured by the env, the evm input or the guest input
Materialized == IsSome(evm_input) \/ IsSome(input) \/ IsSome(env_input)
CapturedLogs ==
  IF IsSome(input) THEN Unwrap(input).commitment.logs
  ELSE IF IsSome(evm_input) THEN Unwrap(evm_input).logs
  ELSE Unwrap(env).logs
PreflightMatches ==
  \E i \in 1..Len(Unwrap(logs)) :
    Unwrap(logs)[i].encodedMessage = Unwrap(encoded_message)

\* C10: an input exists only if the preflight query, asked at the source
\* contract address over the context pinned to the execution block, returned
\* a log whose payload equals the receipt-derived message; otherwise
\* build_input fails with the mismatch error and nothing is materialized or
\* serialized.
C10_PreflightGuardsInput ==
  /\ Materialized =>
       /\ IsSome(logs) /\ PreflightMatches
       /\ \E i \in 1..Len(CapturedLogs) :
            /\ Qualifies(CapturedLogs[i])
            /\ CapturedLogs[i].encodedMessage = Unwrap(encoded_message)
       /\ \E i \in CallIndexes :
            /\ calls[i].method = "eth_getLogs"
            /\ calls[i].to = args.src_transceiver_addr
            /\ calls[i].params = <<Unwrap(execution_block)>>
  /\ IsSome(env) => Unwrap(env).block = Unwrap(execution_block)
  /\ (IsSome(logs) /\ ~PreflightMatches) =>
       (pc = "done" /\ outcome = Err(CommitmentMismatch))
  /\ outcome = Err(CommitmentMismatch) =>
       /\ IsSome(logs) /\ ~PreflightMatches
       /\ ~Materialized
       /\ ~Did("into_input") /\ ~Did("serialize") /\ ~Did("prove")

\* C10 witness: the preflight query returned logs, none with the message
C10_Witness ==
  /\ outcome = Err(CommitmentMismatch)
  /\ Len(Unwrap(logs)) > 0

\* ------------------------------------------------------------- C11, C12
CodecHigh(u) == [i \in 1..12 |-> u[i]]
CodecLow(u) == [i \in 1..20 |-> u[i + 12]]
ZeroHigh == [i \in 1..12 |-> 0]

\* C11: to_wormhole_address of a 20-byte address a is 32 bytes whose high 12
\* bytes are zero and whose low 20 bytes are a, and from_wormhole_address of it
\* is a again.
C11_AddressRoundTrip ==
  /\ (Len(c_input) = 20 /\ Len(c_path) >= 1) =>
        /\ c_path[1] = "to_wormhole_address"
        /\ Len(c_path) = 1 =>
              /\ Len(c_value) = 32
              /\ CodecHigh(c_value) = ZeroHigh
              /\ CodecLow(c_value) = c_input
  /\ (Len(c_input) = 20 /\ Len(c_path) = 2) =>
        /\ c_path[2] = "from_wormhole_address"
        /\ c_value = c_input

C11_Witness ==
  /\ Len(c_input) = 20
  /\ c_path = <<"to_wormhole_address", "from_wormhole_address">>
  /\ c_input[20] = 255
  /\ c_value = c_input

\* C12: from_wormhole_address of any 32-byte value u is the low 20 bytes of u,
\* whatever its high 12 bytes hold, and to_wormhole_address of that result is u
\* exactly when the high 12 bytes of u are zero.
C12_UniversalRoundTrip ==
  /\ (Len(c_input) = 32 /\ Len(c_path) >= 1) =>
        /\ c_path[1] = "from_wormhole_address"
        /\ Len(c_path) = 1 => c_value = CodecLow(c_input)
  /\ (Len(c_input) = 32 /\ Len(c_path) = 2) =>
        /\ c_path[2] = "to_wormhole_address"
        /\ (c_value = c_input) <=> (CodecHigh(c_input) = ZeroHigh)
        /\ CodecLow(c_value) = CodecLow(c_input)

C12_Witness ==
  /\ Len(c_input) = 32
  /\ CodecHigh(c_input) # ZeroHigh
  /\ c_path = <<"from_wormhole_address", "to_wormhole_address">>
  /\ c_value # c_input

\* ------------------------------------------------------------- C13, C14
Sends == {i \in CallIndexes : IsSend(i)}

\* C13: when the receipt of the receiveMessage transaction reports failure, or
\* the transaction does not confirm, the run ends in an error that carries the
\* hash of that transaction, and receiveMessage is sent once only.
C13_FailedTransactionNamed ==
  /\ (Did("check_status") /\ ~Unwrap(tx_receipt).status) =>
        /\ pc = "done"
        /\ outcome = ErrTx(TransactionFailed, Unwrap(pending_tx))
  /\ (Did("get_receipt") /\ tx_receipt = None) =>
        /\ pc = "done"
        /\ outcome = ErrTx(DidNotConfirm, Unwrap(pending_tx))
  /\ outcome.msg \in {TransactionFailed, DidNotConfirm} =>
        /\ outcome.status = "Err"
        /\ outcome.tx_hash \in TxHashes
        /\ \E i \in Sends : i = Len(calls) - 1
  /\ Cardinality(Sends) <= 1

C13_Witness ==
  /\ pc = "done"
  /\ Did("check_status")
  /\ ~Unwrap(tx_receipt).status
  /\ outcome = ErrTx(TransactionFailed, "0xd2")
  /\ Cardinality(Sends) = 1

\* C14: a run that has terminated ended in success exactly when a
\* receiveMessage transaction was sent, its receipt was obtained and the
\* receipt's status is success; every other terminated run ended in an error.
C14_SuccessOnlyAfterConfirmedTransaction ==
  pc = "done" =>
    /\ outcome.status \in {"Ok", "Err"}
    /\ outcome = Ok <=>
          /\ Sends # {}
          /\ IsSome(pending_tx)
          /\ IsSome(tx_receipt)
          /\ Unwrap(tx_receipt).status
    /\ outcome # Ok => outcome.status = "Err" /\ outcome.msg # ""

C14_Witness ==
  /\ pc = "done"
  /\ outcome = Ok
  /\ Sends # {}
  /\ Unwrap(tx_receipt).status

\* ------------------------------------------------------------- C15
\* a step is taken by a run that has not failed, and a step that fails ends
\* the run without a receiveMessage request
NoStepAfterFailure ==
  /\ outcome.status = "running"
  /\ pc # "done"
  /\ outcome'.status = "Err" =>
        /\ pc' = "done"
        /\ trace' = Append(trace, pc)
        /\ pc \notin {"send", "get_receipt", "check_status"} =>
              {i \in 1..Len(calls') : calls'[i].method = "receiveMessage"} = {}

FramePrefix == Take(Unwrap(env_input), 8)
FramePayload == Drop(Unwrap(env_input), 8)

BuiltInput == Unwrap(input)
GuestFound == query(into_env(BuiltInput.commitment).logs, guest_query_address(BuiltInput))

\* C18: whenever build_input has returned a frame, the verification program
\* run on that frame over the captured chain state does not fail its
\* assertion: it queries the same event at the address build_input was given
\* (from_wormhole_address of to_wormhole_address of it) and finds a log that
\* carries the input's message, as the preflight query did.
C18_GuestAcceptsBuiltInput ==
  IsSome(env_input) =>
    /\ guest_query_address(BuiltInput) = args.src_transceiver_addr
    /\ guest_assert(GuestFound, BuiltInput)
    /\ preflight_ok(GuestFound, BuiltInput.encoded_message)
    /\ guest_main(Unwrap(env_input)).exit = "ok"

C18_Witness ==
  /\ pc = "prove"
  /\ IsSome(env_input)
  /\ args.src_transceiver_addr = AddrB
  /\ Len(BuiltInput.commitment.logs) = MaxLogs
  /\ Len(GuestFound) = 1
  /\ guest_main(Unwrap(env_input)).exit = "ok"

\* ------------------------------------------------------------- C19
GateSteps ==
  <<"decode_journal", "encode_seal", "image_id", "check_image_id", "send",
    "get_receipt", "check_status">>
GateTrace ==
  IF Did("prove") THEN SubSeq(trace, IndexOf(trace, "prove") + 1, Len(trace))
  ELSE <<>>
StepIndex(step) == IndexOf(trace, step)

\* C19 as stated: the seal is encoded only after the identity check has
\* passed, so a run that ends in the invalid-receipt error has read the
\* contract's identity and found it equal.
C19_SealEncodedAfterIdentityCheck ==
  /\ Did("encode_seal") =>
        /\ Did("check_image_id")
        /\ StepIndex("check_image_id") < StepIndex("encode_seal")
  /\ outcome = Err(InvalidReceipt) =>
        /\ IsSome(contract_image_id)
        /\ image_id_ok(Unwrap(contract_image_id))

\* C19: the steps of main after the proof run in the order decode journal,
\* encode seal, query identity, compare identity, send receiveMessage, wait
\* for the receipt; the seal is encoded before the identity is queried, so a
\* receipt whose seal cannot be encoded ends the run in the invalid-receipt
\* error with no identity query made, and an identity mismatch is reported
\* only for a receipt whose seal was encoded.
C19_SealEncodedBeforeIdentityQuery ==
  /\ Len(GateTrace) <= Len(GateSteps)
  /\ GateTrace = SubSeq(GateSteps, 1, Len(GateTrace))
  /\ Did("image_id") =>
        /\ IsSome(seal)
        /\ seal = encode_seal(Unwrap(prove_info))
  /\ outcome = Err(InvalidReceipt) =>
        /\ ~Requested("imageID")
        /\ contract_image_id = None
        /\ Sends = {}
  /\ outcome = Err(ProgramIdentityMismatch) =>
        /\ IsSome(seal)
        /\ Sends = {}

C19_Witness ==
  /\ pc = "done"
  /\ outcome = Err(InvalidReceipt)
  /\ encode_seal(Unwrap(prove_info)) = None
  /\ GateTrace = <<"decode_journal", "encode_seal">>
  /\ ~Requested("imageID")

\* ------------------------------------------------------------- C20
Times(step) == Cardinality({i \in 1..Len(trace) : trace[i] = step})
RequestsOf(method, params) ==
  Cardinality({i \in CallIndexes : calls[i].method = method /\ calls[i].params = params})
RequestsTo(method) == Cardinality({i \in CallIndexes : calls[i].method = method})

\* C20: within a run no step is retried: the receipt of tx_hash is fetched,
\* the preflight query made, the prover invoked, the identity queried and
\* receiveMessage sent at most once each, and a failure of the prover (a
\* failed assertion of the guest included) ends the run in an error with the
\* prover invoked once.
C20_NoStepRetried ==
  /\ \A i \in 1..Len(trace) : Times(trace[i]) = 1
  /\ RequestsOf("eth_getTransactionReceipt", <<args.tx_hash>>) <= 1
  /\ RequestsTo("eth_getLogs") <= 1
  /\ RequestsTo("imageID") <= 1
  /\ RequestsTo("receiveMessage") <= 1
  /\ outcome \in {Err(ProofFailed), Err(JoinError)} =>
        /\ pc = "done"
        /\ trace[Len(trace)] = "prove"
        /\ Times("prove") = 1
        /\ prove_info = None

C20_Witness ==
  /\ pc = "done"
  /\ outcome = Err(ProofFailed)
  /\ Times("prove") = 1
  /\ Times("get_transaction_receipt") = 1
  /\ Times("preflight") = 1
  /\ RequestsTo("eth_getLogs") = 1

\* ------------------------------------------------------------- C22, C23
TEmitter == Unwrap(abi_decode(Unwrap(TJournal))).emitterContract
TMessage == Unwrap(abi_decode(Unwrap(TJournal))).encodedMessage
SameEmitter(u) == CodecLow(u) = CodecLow(TInput.contract_addr)
RunWithAddress(u) == guest_run([TInput EXCEPT !.contract_addr = u])

\* C22: for every input the guest accepts, the journal's emitterContract has
\* its high 12 bytes zero and its low 20 bytes equal to the address whose
\* logs were queried, and every accepted input that differs from it only in
\* the high 12 bytes of contract_addr commits the same emitterContract.
C22_EmitterIsCanonical ==
  (TDone /\ TExit = "ok") =>
    /\ CodecHigh(TEmitter) = ZeroHigh
    /\ CodecLow(TEmitter) = guest_query_address(TInput)
    /\ \A u \in UniversalAddresses :
         (SameEmitter(u) /\ RunWithAddress(u).exit = "ok") =>
           Unwrap(abi_decode(Unwrap(RunWithAddress(u).journal))).emitterContract
             = TEmitter

\* C23: the guest never commits a journal whose encodedMessage is empty,
\* whatever the input and the logs of the captured block are.
C23_NoEmptyMessageCommitted ==
  (TDone /\ TExit = "ok") => TMessage # <<>>

\* ------------------------------------------------------------- C21
\* what build_proof returns for a world when nothing else runs: its steps in
\* program order
SequentialFrame(w, message) ==
  Frame(serialize(guest_input(
    [block |-> Unwrap(Unwrap(w.receipt).block_number),
     commitment_block |-> w.commitment_block, logs |-> w.block_logs],
    w.contract_addr, message)))
SequentialProof(w, message) ==
  IF w.prover = "prover_error" \/ guest_main(SequentialFrame(w, message)).exit # "ok"
  THEN ProofErr(ProofFailed)
  ELSE ProofOk(Unwrap(guest_main(SequentialFrame(w, message)).journal))
SequentialResult(w) ==
  IF w.receipt = None THEN ProofErr(NotFound)
  ELSE IF Unwrap(w.receipt).block_number = None THEN ProofErr(NotIncluded)
  ELSE IF ~commitment_block_ok(w.commitment_block, Unwrap(Unwrap(w.receipt).block_number))
  THEN ProofErr(InvalidCommitmentBlock)
  ELSE IF find_map(Unwrap(w.receipt).logs, w.contract_addr) = None
  THEN ProofErr(EventNotFound)
  ELSE IF Unwrap(find_map(Unwrap(w.receipt).logs, w.contract_addr)) = <<>>
  THEN ProofErr(EmptyMessage)
  ELSE IF ~preflight_ok(query(w.block_logs, w.contract_addr),
                        Unwrap(find_map(Unwrap(w.receipt).logs, w.contract_addr)))
  THEN ProofErr(CommitmentMismatch)
  ELSE SequentialProof(w, Unwrap(find_map(Unwrap(w.receipt).logs, w.contract_addr)))

NetworkSteps == {"get_transaction_receipt", "build_env", "preflight"}
InProofGeneration(a) ==
  \E i \in 1..Len(pool) : pool[i].owner = a /\ pool[i].state = "running"
NetworkStep(b) == attempt_receipt(b) \/ attempt_env(b) \/ attempt_preflight(b)

====
